---- MODULE Spec2Model ----
(***************************************************************************)
(* A model of raiblocks/client.py: the RaiBlocks node RPC client.  One     *)
(* action per public method of Client; each action is one whole            *)
(* invocation, from argument preprocessing through the single POST of      *)
(* Client.call to the postprocessing of the node's reply.                  *)
(*                                                                         *)
(* Python values are records [t, s, n, l, d]: a type tag, and the text,    *)
(* the number, the items or the mapping the value carries.  A Python str   *)
(* is a TLA+ string, read character by character where the code parses it. *)
(***************************************************************************)
EXTENDS Integers, Sequences, FiniteSets, TLC

VARIABLES
    ctorHost,       \* the host argument given to Client.__init__
    ctorSession,    \* the session argument given to Client.__init__
    host,           \* Client.host
    session,        \* Client._session
    pc,             \* "idle", or "awaiting" while an invocation's POST is out
    posts,          \* number of POSTs the last invocation issued
    op,             \* the method invoked last
    args,           \* its arguments, by name
    reply,          \* what the node / transport answered to its POST
    sent,           \* the last POST issued: [url, json]
    callerParams,   \* the caller's own params object, as it is after the call
    outcome         \* how the invocation ended: [raised, value]

vars == <<ctorHost, ctorSession, host, session, pc, posts, op, args, reply, sent,
          callerParams, outcome>>

----------------------------------------------------------------------------
(* Bounds of the model *)

\* largest number of fields in a node response
MaxKeys == 3
\* largest integer the node encodes as a string
MaxNum == 120

----------------------------------------------------------------------------
(* Python values *)

PyVal(t, s, n, l, d) == [t |-> t, s |-> s, n |-> n, l |-> l, d |-> d]

EmptyDict == <<>>

None == PyVal("NoneType", "", 0, <<>>, EmptyDict)
Str(s) == PyVal("str", s, 0, <<>>, EmptyDict)
Integer(n) == PyVal("int", "", n, <<>>, EmptyDict)
Bool(b) == PyVal("bool", "", IF b THEN 1 ELSE 0, <<>>, EmptyDict)
List(l) == PyVal("list", "", 0, l, EmptyDict)
Dict(d) == PyVal("dict", "", 0, <<>>, d)

\* the value of an invocation that returned nothing
NoValue == PyVal("absent", "", 0, <<>>, EmptyDict)

\* Python's truth value testing, as `or`, `and`, `if` and `not` apply it
Truthy(v) ==
    CASE v.t = "NoneType" -> FALSE
      [] v.t = "bool" -> v.n = 1
      [] v.t = "int" -> v.n # 0
      [] v.t = "str" -> v.s # ""
      [] v.t = "list" -> v.l # <<>>
      [] v.t = "dict" -> DOMAIN v.d # {}
      [] OTHER -> TRUE

\* how a Python call ends
Return(v) == [raised |-> "", value |-> v]
Raise(e) == [raised |-> e, value |-> NoValue]

----------------------------------------------------------------------------
(* int() and str() *)

DigitChars == <<"0", "1", "2", "3", "4", "5", "6", "7", "8", "9">>

IsDigit(c) == \E i \in 1..10 : DigitChars[i] = c
DigitVal(c) == (CHOOSE i \in 1..10 : DigitChars[i] = c) - 1
IsSpace(c) == c \in {" ", "\t", "\n", "\r"}

CharAt(s, i) == SubSeq(s, i, i)

RECURSIVE LStrip(_)
LStrip(s) == IF s # "" /\ IsSpace(Head(s)) THEN LStrip(Tail(s)) ELSE s

RECURSIVE RStrip(_)
RStrip(s) ==
    IF s # "" /\ IsSpace(CharAt(s, Len(s)))
    THEN RStrip(SubSeq(s, 1, Len(s) - 1))
    ELSE s

\* a run of digits, single underscores allowed between two digits
IsDigitRun(s) ==
    /\ s # ""
    /\ IsDigit(Head(s))
    /\ IsDigit(CharAt(s, Len(s)))
    /\ \A i \in 1..Len(s) : IsDigit(CharAt(s, i)) \/ CharAt(s, i) = "_"
    /\ \A i \in 1..(Len(s) - 1) : ~(CharAt(s, i) = "_" /\ CharAt(s, i + 1) = "_")

RECURSIVE DigitRunValue(_, _)
DigitRunValue(s, acc) ==
    IF s = "" THEN acc
    ELSE IF Head(s) = "_" THEN DigitRunValue(Tail(s), acc)
    ELSE DigitRunValue(Tail(s), 10 * acc + DigitVal(Head(s)))

\* int(text): surrounding whitespace, an optional sign, decimal digits
ParseInt(text) ==
    LET body == RStrip(LStrip(text))
        signed == body # "" /\ Head(body) \in {"+", "-"}
        digits == IF signed THEN Tail(body) ELSE body
    IN  IF ~IsDigitRun(digits) THEN Raise("ValueError")
        ELSE IF signed /\ Head(body) = "-"
        THEN Return(Integer(0 - DigitRunValue(digits, 0)))
        ELSE Return(Integer(DigitRunValue(digits, 0)))

\* int(v) on a decoded JSON value
PyInt(v) ==
    CASE v.t = "str" -> ParseInt(v.s)
      [] v.t = "int" -> Return(Integer(v.n))
      [] v.t = "bool" -> Return(Integer(v.n))
      [] OTHER -> Raise("TypeError")

RECURSIVE NatStr(_)
NatStr(n) ==
    IF n < 10 THEN DigitChars[n + 1]
    ELSE NatStr(n \div 10) \o DigitChars[(n % 10) + 1]

\* str(n) of an integer
PyStr(n) == IF n < 0 THEN "-" \o NatStr(0 - n) ELSE NatStr(n)

----------------------------------------------------------------------------
(* Module-level preprocessing helpers *)

\* raiblocks.models: tags over the raw string, with no validation
Account(v) == PyVal("Account", v.s, 0, <<>>, EmptyDict)
Wallet(v) == PyVal("Wallet", v.s, 0, <<>>, EmptyDict)
PublicKey(v) == PyVal("PublicKey", v.s, 0, <<>>, EmptyDict)

preprocess_account(account_string) == Account(account_string)
preprocess_wallet(wallet_string) == Wallet(wallet_string)
preprocess_public_key(public_key_string) == PublicKey(public_key_string)

\* value and 'true' or 'false'
preprocess_strbool(value) == IF Truthy(value) THEN Str("true") ELSE Str("false")

\* str(int(integer_string))
preprocess_int(integer_string) ==
    LET i == PyInt(integer_string)
    IN  IF i.raised # "" THEN i ELSE Return(Str(PyStr(i.value.n)))

----------------------------------------------------------------------------
(* Mappings *)

DictSet(d, k, v) == [x \in (DOMAIN d) \cup {k} |-> IF x = k THEN v ELSE d[x]]

\* d.get(k): the value under k, None when d has no k
DictGet(d, k) == IF k \in DOMAIN d THEN d[k] ELSE None

----------------------------------------------------------------------------
(* The node and the transport *)

\* what one POST meets: the transport fails, the body is not JSON, or the
\* body decodes to a JSON object
Transport(e) == [kind |-> "transport", err |-> e, body |-> EmptyDict]
Undecodable == [kind |-> "decode", err |-> "JSONDecodeError", body |-> EmptyDict]
Json(body) == [kind |-> "ok", err |-> "", body |-> body]
NoReply == [kind |-> "none", err |-> "", body |-> EmptyDict]

TransportErrors == {"ConnectionError", "Timeout"}

NoPost == [url |-> None, json |-> EmptyDict]

----------------------------------------------------------------------------
(* Client.__init__ *)

DefaultHost == Str("http://localhost:7076")
NewSession == PyVal("Session", "requests.Session()", 0, <<>>, EmptyDict)

InitHost(h) == IF ~Truthy(h) THEN DefaultHost ELSE h
InitSession(s) == IF ~Truthy(s) THEN NewSession ELSE s

----------------------------------------------------------------------------
(* Client.call *)

\* variant: params.setdefault('action', action), which keeps a caller's own
\* `action` entry
InjectAction_setdefault(action, params) ==
    LET p == IF Truthy(params) THEN params.d ELSE EmptyDict
    IN  IF "action" \in DOMAIN p THEN p ELSE DictSet(p, "action", action)

\* params = params or {}; params['action'] = action: the mapping that is POSTed
InjectAction(action, params) ==
    LET p == IF Truthy(params) THEN params.d ELSE EmptyDict
    IN  DictSet(p, "action", action)

\* the object the caller passed, after the two statements above: `params or {}`
\* is the caller's own object when that object is truthy, and a new one otherwise
CallerParamsAfter(action, params) ==
    IF Truthy(params) THEN Dict(InjectAction(action, params)) ELSE params

\* self._session.post(self.host, json=params): the request that goes out
PostRequest(action, params) ==
    [sent |-> [url |-> host, json |-> InjectAction(action, params)],
     posts |-> 1,
     params |-> CallerParamsAfter(action, params)]

\* variant: a client that posts a second time when the transport fails
Receive_retry(rep) ==
    CASE rep.kind = "transport" -> [reposts |-> 1, out |-> Raise(rep.err)]
      [] rep.kind = "decode" -> [reposts |-> 0, out |-> Raise(rep.err)]
      [] OTHER -> [reposts |-> 0, out |-> Return(Dict(rep.body))]

\* how call ends once the POST has met rep: an exception of post() is
\* re-raised as it is, and resp.json() returns the decoded body or raises
Receive(rep) ==
    CASE rep.kind = "transport" -> [reposts |-> 0, out |-> Raise(rep.err)]
      [] rep.kind = "decode" -> [reposts |-> 0, out |-> Raise(rep.err)]
      [] OTHER -> [reposts |-> 0, out |-> Return(Dict(rep.body))]

----------------------------------------------------------------------------
(* Response postprocessing of the typed operations *)

\* variant: account_balance returning the response as it came
CoerceAll_asis(resp) == {Return(Dict(resp))}

\* account_balance: {k: int(v) for k, v in resp.items()}.  The comprehension
\* stops at the first value int() rejects; which one is first is the order of
\* the node's JSON, so every rejected value's error is a possible ending.
CoerceAll(resp) ==
    LET bad == {k \in DOMAIN resp : PyInt(resp[k]).raised # ""}
    IN  IF bad = {}
        THEN {Return(Dict([k \in DOMAIN resp |-> PyInt(resp[k]).value]))}
        ELSE {PyInt(resp[k]) : k \in bad}

\* account_block_count: int(resp['block_count'])
BlockCountOf(resp) ==
    IF "block_count" \notin DOMAIN resp THEN Raise("KeyError")
    ELSE PyInt(resp["block_count"])

\* account_info: for key in (...): if key in resp: resp[key] = int(resp[key])
InfoIntKeys == <<"modified_timestamp", "block_count", "balance", "pending", "weight">>

\* variant: the loop without its `if key in resp` test
RECURSIVE CoercePresent_unguarded(_, _)
CoercePresent_unguarded(resp, keys) ==
    IF keys = <<>> THEN Return(Dict(resp))
    ELSE IF Head(keys) \notin DOMAIN resp THEN Raise("KeyError")
    ELSE LET i == PyInt(resp[Head(keys)])
         IN  IF i.raised # "" THEN i
             ELSE CoercePresent_unguarded(DictSet(resp, Head(keys), i.value), Tail(keys))

RECURSIVE CoercePresent(_, _)
CoercePresent(resp, keys) ==
    IF keys = <<>> THEN Return(Dict(resp))
    ELSE IF Head(keys) \notin DOMAIN resp THEN CoercePresent(resp, Tail(keys))
    ELSE LET i == PyInt(resp[Head(keys)])
         IN  IF i.raised # "" THEN i
             ELSE CoercePresent(DictSet(resp, Head(keys), i.value), Tail(keys))

\* account_create, account_get: resp['account']
AccountOf(resp) ==
    IF "account" \notin DOMAIN resp THEN Raise("KeyError")
    ELSE Return(resp["account"])

\* variant: resp.get('history') without `or []`
HistoryOf_get(resp) == DictGet(resp, "history")

\* account_history: history = resp.get('history') or []
HistoryOf(resp) ==
    IF Truthy(DictGet(resp, "history")) THEN DictGet(resp, "history") ELSE List(<<>>)

\* for entry in history: entry['amount'] = int(entry['amount'])
RECURSIVE CoerceEntries(_, _)
CoerceEntries(todo, done) ==
    IF todo = <<>> THEN Return(List(done))
    ELSE LET entry == Head(todo)
         IN  IF entry.t # "dict" THEN Raise("TypeError")
             ELSE IF "amount" \notin DOMAIN entry.d THEN Raise("KeyError")
             ELSE LET i == PyInt(entry.d["amount"])
                  IN  IF i.raised # "" THEN i
                      ELSE CoerceEntries(Tail(todo),
                               Append(done, Dict(DictSet(entry.d, "amount", i.value))))

\* a truthy history that is no list is a str, a number or a mapping: the loop
\* either cannot iterate it or indexes one of its str items with 'amount'
CoerceAmounts(history) ==
    IF history.t = "list" THEN CoerceEntries(history.l, <<>>)
    ELSE Raise("TypeError")

\* account_list: resp.get('accounts') or []
AccountsOf(resp) ==
    IF Truthy(DictGet(resp, "accounts")) THEN DictGet(resp, "accounts") ELSE List(<<>>)

\* version: for key in (...): resp[key] = int(resp[key])
VersionIntKeys == <<"rpc_version", "store_version">>

\* variant: every field int() accepts is converted, not only the listed ones
CoerceRequired_every(resp, keys) ==
    IF \E i \in 1..Len(keys) : keys[i] \notin DOMAIN resp THEN Raise("KeyError")
    ELSE IF \E i \in 1..Len(keys) : PyInt(resp[keys[i]]).raised # ""
    THEN PyInt(resp[keys[CHOOSE i \in 1..Len(keys) : PyInt(resp[keys[i]]).raised # ""]])
    ELSE Return(Dict([k \in DOMAIN resp |->
                         IF PyInt(resp[k]).raised = "" THEN PyInt(resp[k]).value
                         ELSE resp[k]]))

RECURSIVE CoerceRequired(_, _)
CoerceRequired(resp, keys) ==
    IF keys = <<>> THEN Return(Dict(resp))
    ELSE IF Head(keys) \notin DOMAIN resp THEN Raise("KeyError")
    ELSE LET i == PyInt(resp[Head(keys)])
         IN  IF i.raised # "" THEN i
             ELSE CoerceRequired(DictSet(resp, Head(keys), i.value), Tail(keys))

\* variant: bool(resp.get('success'))
StopResult_truthy(resp) == Bool(Truthy(DictGet(resp, "success")))

\* stop: 'success' in resp
StopResult(resp) == Bool("success" \in DOMAIN resp)

\* variant: every flag is sent, through preprocess_strbool
InfoPayload_always(account, representative, weight, pending) ==
    ("account" :> preprocess_account(account))
        @@ ("representative" :> preprocess_strbool(representative))
        @@ ("weight" :> preprocess_strbool(weight))
        @@ ("pending" :> preprocess_strbool(pending))

\* account_info: the payload, each flag added only under `if <flag>:`
InfoPayload(account, representative, weight, pending) ==
    LET p0 == ("account" :> preprocess_account(account))
        p1 == IF Truthy(representative)
              THEN DictSet(p0, "representative", preprocess_strbool(representative))
              ELSE p0
        p2 == IF Truthy(weight)
              THEN DictSet(p1, "weight", preprocess_strbool(weight))
              ELSE p1
    IN  IF Truthy(pending)
        THEN DictSet(p2, "pending", preprocess_strbool(pending))
        ELSE p2

----------------------------------------------------------------------------
(* What callers pass and what the node answers *)

Accounts == {"xrb_3e3j5tko"}
Wallets == {"000D1BAEC8EC"}
PublicKeys == {"3068BB1CA045"}
Counts == {Integer(1), Integer(MaxNum)}
FlagVals == {Bool(FALSE), Bool(TRUE), Integer(1)}

GivenSession == PyVal("Session", "caller's session", 0, <<>>, EmptyDict)
HostArgs == {None, Str(""), Str("http://node.example:7076")}
SessionArgs == {None, GivenSession}

ActionNames == {"block_count", "stop"}
ParamArgs ==
    {None,
     Dict(EmptyDict),
     Dict("account" :> Str("xrb_3e3j5tko")),
     Dict("action" :> Str("version")),
     Dict(("action" :> Str("version")) @@ ("wallet" :> Str("000D1BAEC8EC"))),
     Dict(("account" :> Str("xrb_1e5aqegc")) @@ ("count" :> Str("1")))}

\* the integers the node reports, each sent as its decimal string
NodeInts == {7, MaxNum}
NumStrs == {Str(PyStr(n)) : n \in NodeInts}

ErrorMessages == {Str("Bad account number")}

HistoryEntry(amount) ==
    Dict(("hash" :> Str("000D1BAE")) @@ ("type" :> Str("receive")) @@ ("amount" :> amount))

\* the values the node may put under a field
NodeVals(k) ==
    CASE k = "balance" -> NumStrs \cup {Str("")}
      [] k = "pending" -> NumStrs
      [] k = "weight" -> {Str("7")}
      [] k = "block_count" -> {Str("7"), Integer(7)}
      [] k = "modified_timestamp" -> {Str(PyStr(MaxNum))}
      [] k = "rpc_version" -> NumStrs \cup {Str("v1")}
      [] k = "store_version" -> NumStrs \cup {None}
      [] k = "node_vendor" -> {Str("RaiBlocks 9.0"), Str("10")}
      [] k = "frontier" -> {Str("FF84533A"), Str("33")}
      [] k = "account" -> {Str("xrb_3e3j5tko"), Str("")}
      [] k = "accounts" ->
            {None, Str(""), List(<<>>), List(<<Str("xrb_3e3j5tko")>>),
             List(<<Str("xrb_3e3j5tko"), Str("xrb_1e5aqegc")>>)}
      [] k = "history" ->
            {None, Str(""), List(<<>>), Str("none"),
             List(<<HistoryEntry(Str(PyStr(MaxNum)))>>),
             List(<<HistoryEntry(Str("7")), HistoryEntry(Str(" 7"))>>),
             List(<<HistoryEntry(Str("7")), HistoryEntry(Str(""))>>),
             List(<<Dict("hash" :> Str("000D1BAE"))>>),
             List(<<Str("000D1BAE")>>)}
      [] k = "success" -> {Str(""), None, Bool(FALSE)}
      [] k = "error" -> ErrorMessages
      [] OTHER -> {Str("")}

\* the JSON objects with at most n of the fields `keys`
RECURSIVE BodiesOver(_, _)
BodiesOver(keys, n) ==
    IF keys = {} \/ n = 0 THEN {EmptyDict}
    ELSE LET k == CHOOSE x \in keys : TRUE
         IN  BodiesOver(keys \ {k}, n)
             \cup {DictSet(b, k, v) : b \in BodiesOver(keys \ {k}, n - 1), v \in NodeVals(k)}

RepliesOver(keys) ==
    {Transport(e) : e \in TransportErrors}
    \cup {Undecodable}
    \cup {Json(b) : b \in BodiesOver(keys, MaxKeys)}

CallReplies == RepliesOver({"block_count", "success", "error"})
BalanceReplies == RepliesOver({"balance", "pending", "error"})
BlockCountReplies == RepliesOver({"block_count", "error"})
InfoReplies ==
    RepliesOver({"modified_timestamp", "block_count", "balance", "pending", "weight",
                 "frontier", "error"})
AccountReplies == RepliesOver({"account", "error"})
HistoryReplies == RepliesOver({"history", "error"})
ListReplies == RepliesOver({"accounts", "error"})
VersionReplies == RepliesOver({"rpc_version", "store_version", "node_vendor", "error"})
StopReplies == RepliesOver({"success", "error"})

----------------------------------------------------------------------------
(* The client.  An invocation is two steps: the method runs up to its POST, *)
(* and, when the POST has met the node's reply or a failure, runs to its    *)
(* end.  The client makes one invocation at a time.                         *)

Pending == [raised |-> "", value |-> NoValue]

Init ==
    /\ ctorHost \in HostArgs
    /\ ctorSession \in SessionArgs
    /\ host = InitHost(ctorHost)
    /\ session = InitSession(ctorSession)
    /\ pc = "idle"
    /\ posts = 0
    /\ op = "__init__"
    /\ args = EmptyDict
    /\ reply = NoReply
    /\ sent = NoPost
    /\ callerParams = None
    /\ outcome = Return(None)

\* the method `name`, invoked with arguments a, has issued the request p
Posted(name, a, p, cp) ==
    /\ pc = "idle"
    /\ pc' = "awaiting"
    /\ op' = name
    /\ args' = a
    /\ sent' = p.sent
    /\ posts' = p.posts
    /\ reply' = NoReply
    /\ callerParams' = cp
    /\ outcome' = Pending
    /\ UNCHANGED <<ctorHost, ctorSession, host, session>>

\* the method raised before it reached self.call
Rejected(name, a, o) ==
    /\ pc = "idle"
    /\ pc' = "idle"
    /\ op' = name
    /\ args' = a
    /\ sent' = NoPost
    /\ posts' = 0
    /\ reply' = NoReply
    /\ callerParams' = None
    /\ outcome' = o
    /\ UNCHANGED <<ctorHost, ctorSession, host, session>>

\* the POST of `name` has met rep, call ended as r and the method as o
Finished(name, rep, r, o) ==
    /\ pc = "awaiting"
    /\ op = name
    /\ pc' = "idle"
    /\ reply' = rep
    /\ posts' = posts + r.reposts
    /\ outcome' = o
    /\ UNCHANGED <<ctorHost, ctorSession, host, session, op, args, sent, callerParams>>

\* postprocessing runs only when self.call returned
Then(r, post) == IF r.out.raised # "" THEN r.out ELSE post

call_post ==
    \E action \in ActionNames, params \in ParamArgs :
        LET p == PostRequest(Str(action), params)
        IN  Posted("call", ("action" :> Str(action)) @@ ("params" :> params), p, p.params)

call_return ==
    \E rep \in CallReplies :
        LET r == Receive(rep)
        IN  Finished("call", rep, r, r.out)

call == call_post \/ call_return

account_balance_post ==
    \E account \in Accounts :
        LET payload == ("account" :> preprocess_account(Str(account)))
        IN  Posted("account_balance", ("account" :> Str(account)),
                   PostRequest(Str("account_balance"), Dict(payload)), None)

account_balance_return ==
    \E rep \in BalanceReplies :
        LET r == Receive(rep)
        IN  \E o \in (IF r.out.raised # "" THEN {r.out} ELSE CoerceAll(r.out.value.d)) :
                Finished("account_balance", rep, r, o)

account_balance == account_balance_post \/ account_balance_return

account_block_count_post ==
    \E account \in Accounts :
        LET payload == ("account" :> preprocess_account(Str(account)))
        IN  Posted("account_block_count", ("account" :> Str(account)),
                   PostRequest(Str("account_block_count"), Dict(payload)), None)

account_block_count_return ==
    \E rep \in BlockCountReplies :
        LET r == Receive(rep)
        IN  Finished("account_block_count", rep, r, Then(r, BlockCountOf(r.out.value.d)))

account_block_count == account_block_count_post \/ account_block_count_return

account_info_post ==
    \E account \in Accounts, representative \in FlagVals, weight \in FlagVals,
       pending \in FlagVals :
        LET payload == InfoPayload(Str(account), representative, weight, pending)
        IN  Posted("account_info",
                   ("account" :> Str(account)) @@ ("representative" :> representative)
                       @@ ("weight" :> weight) @@ ("pending" :> pending),
                   PostRequest(Str("account_info"), Dict(payload)), None)

account_info_return ==
    \E rep \in InfoReplies :
        LET r == Receive(rep)
        IN  Finished("account_info", rep, r,
                     Then(r, CoercePresent(r.out.value.d, InfoIntKeys)))

account_info == account_info_post \/ account_info_return

account_create_post ==
    \E wallet \in Wallets :
        LET payload == ("wallet" :> preprocess_wallet(Str(wallet)))
        IN  Posted("account_create", ("wallet" :> Str(wallet)),
                   PostRequest(Str("account_create"), Dict(payload)), None)

account_create_return ==
    \E rep \in AccountReplies :
        LET r == Receive(rep)
        IN  Finished("account_create", rep, r, Then(r, AccountOf(r.out.value.d)))

account_create == account_create_post \/ account_create_return

account_get_post ==
    \E key \in PublicKeys :
        LET payload == ("key" :> preprocess_public_key(Str(key)))
        IN  Posted("account_get", ("key" :> Str(key)),
                   PostRequest(Str("account_get"), Dict(payload)), None)

account_get_return ==
    \E rep \in AccountReplies :
        LET r == Receive(rep)
        IN  Finished("account_get", rep, r, Then(r, AccountOf(r.out.value.d)))

account_get == account_get_post \/ account_get_return

account_history_post ==
    \E account \in Accounts, count \in Counts :
        LET a == ("account" :> Str(account)) @@ ("count" :> count)
            c == preprocess_int(count)
            payload == ("account" :> preprocess_account(Str(account)))
                           @@ ("count" :> c.value)
        IN  IF c.raised # "" THEN Rejected("account_history", a, c)
            ELSE Posted("account_history", a,
                        PostRequest(Str("account_history"), Dict(payload)), None)

account_history_return ==
    \E rep \in HistoryReplies :
        LET r == Receive(rep)
        IN  Finished("account_history", rep, r,
                     Then(r, CoerceAmounts(HistoryOf(r.out.value.d))))

account_history == account_history_post \/ account_history_return

account_list_post ==
    \E wallet \in Wallets :
        LET payload == ("wallet" :> preprocess_wallet(Str(wallet)))
        IN  Posted("account_list", ("wallet" :> Str(wallet)),
                   PostRequest(Str("account_list"), Dict(payload)), None)

account_list_return ==
    \E rep \in ListReplies :
        LET r == Receive(rep)
        IN  Finished("account_list", rep, r, Then(r, Return(AccountsOf(r.out.value.d))))

account_list == account_list_post \/ account_list_return

version_post ==
    Posted("version", EmptyDict, PostRequest(Str("version"), None), None)

version_return ==
    \E rep \in VersionReplies :
        LET r == Receive(rep)
        IN  Finished("version", rep, r,
                     Then(r, CoerceRequired(r.out.value.d, VersionIntKeys)))

version == version_post \/ version_return

stop_post ==
    Posted("stop", EmptyDict, PostRequest(Str("stop"), None), None)

stop_return ==
    \E rep \in StopReplies :
        LET r == Receive(rep)
        IN  Finished("stop", rep, r, Then(r, Return(StopResult(r.out.value.d))))

stop == stop_post \/ stop_return

Next ==
    \/ call
    \/ account_balance
    \/ account_block_count
    \/ account_info
    \/ account_create
    \/ account_get
    \/ account_history
    \/ account_list
    \/ version
    \/ stop

Spec == Init /\ [][Next]_vars

----------------------------------------------------------------------------
(* Properties *)

\* the invocation of `name` has ended
Done(name) == pc = "idle" /\ op = name

\* the invocation of `name` has ended and its POST was answered with a JSON object
Answered(name) == Done(name) /\ reply.kind = "ok"

\* v is the decimal string of the integer n
Denotes(v, n) == v = Str(PyStr(n))
IsNumeral(v) == \E n \in 0..MaxNum : Denotes(v, n)

\* the endpoint and the session fixed by the constructor's arguments
EndpointOf(h) == IF h = None \/ h = Str("") THEN Str("http://localhost:7076") ELSE h
ClientUnchanged ==
    /\ host = EndpointOf(ctorHost)
    /\ ctorSession # None => session = ctorSession

\* C1: the payload call(action, params) POSTs has `action` equal to the given
\* action name, every other key of params with its value, and no other key;
\* params may be absent, empty, or hold an `action` key already.
C1_CallPayload ==
    op = "call" =>
        LET given == IF args["params"].t = "dict" THEN args["params"].d ELSE EmptyDict
        IN  /\ DOMAIN sent.json = (DOMAIN given) \cup {"action"}
            /\ sent.json["action"] = args["action"]
            /\ \A k \in (DOMAIN given) \ {"action"} : sent.json[k] = given[k]

C1_Witness ==
    /\ Done("call")
    /\ "action" \in DOMAIN args["params"].d
    /\ "wallet" \in DOMAIN args["params"].d
    /\ args["params"].d["action"] # args["action"]
    /\ sent.json["action"] = args["action"]

\* C2: call mutates no shared state: every mapping a caller passed as params,
\* empty or not, holds after the call exactly what it held before, and the
\* client's host and session are those set at construction.
C2_CallLeavesParamsAndClient ==
    /\ op = "call" => callerParams = args["params"]
    /\ ClientUnchanged

\* C3: the payload of account_info holds `action`, `account` and, for each of
\* representative, weight and pending, the flag's key exactly when the
\* argument is truthy, with the value "true"; a falsy flag is absent.
C3_InfoPayload ==
    op = "account_info" =>
        LET flags == {"representative", "weight", "pending"}
            truthy == {f \in flags : args[f] \notin {Bool(FALSE), None, Integer(0), Str("")}}
        IN  /\ DOMAIN sent.json = {"action", "account"} \cup truthy
            /\ \A f \in truthy : sent.json[f] = Str("true")
            /\ sent.json["action"] = Str("account_info")

C3_Witness ==
    /\ Done("account_info")
    /\ args["weight"] = Integer(1)
    /\ args["representative"] = Bool(FALSE)
    /\ args["pending"] = Bool(TRUE)
    /\ DOMAIN sent.json = {"action", "account", "weight", "pending"}

\* C4: when the node answers account_balance, account_info or version with a
\* mapping that carries only an `error` message, the operation completes
\* without raising and returns a mapping with `error` set to the node's value.
C4_ErrorReturnedAsData ==
    (/\ pc = "idle"
     /\ op \in {"account_balance", "account_info", "version"}
     /\ reply.kind = "ok"
     /\ DOMAIN reply.body = {"error"})
    => (/\ outcome.raised = ""
        /\ outcome.value.t = "dict"
        /\ "error" \in DOMAIN outcome.value.d
        /\ outcome.value.d["error"] = reply.body["error"])

\* C5: every invocation issues exactly one POST, to the endpoint fixed at
\* construction; when the POST fails in transport or its body does not decode,
\* the invocation ends with that same error, posts nothing more and returns
\* no value.
C5_OnePostFailureSurfaces ==
    /\ host = EndpointOf(ctorHost)
    /\ op # "__init__" => posts = 1 /\ sent.url = host
    /\ (pc = "idle" /\ reply.kind \in {"transport", "decode"})
           => outcome = [raised |-> reply.err, value |-> NoValue]

C5_Witness ==
    /\ Done("account_history")
    /\ reply.kind = "transport"
    /\ outcome.raised = "Timeout"
    /\ posts = 1

\* C6: when every value of the node's answer to account_balance is a
\* string-encoded integer, account_balance returns a mapping with the same
\* keys whose every value is the integer the string denotes.
C6_BalanceIntegers ==
    (Answered("account_balance") /\ \A k \in DOMAIN reply.body : IsNumeral(reply.body[k]))
    => (/\ outcome.raised = ""
        /\ outcome.value.t = "dict"
        /\ DOMAIN outcome.value.d = DOMAIN reply.body
        /\ \A k \in DOMAIN reply.body :
               \E n \in 0..MaxNum :
                   Denotes(reply.body[k], n) /\ outcome.value.d[k] = Integer(n))

C6_Witness ==
    /\ Answered("account_balance")
    /\ DOMAIN reply.body = {"balance", "pending"}
    /\ reply.body["balance"] = Str(PyStr(MaxNum))
    /\ outcome.value.t = "dict"
    /\ outcome.value.d["balance"] = Integer(MaxNum)

\* C7: account_history returns an empty sequence when the response has no
\* `history` field, and account_list one when it has no `accounts` field;
\* neither raises.
C7_EmptyWhenAbsent ==
    /\ (Answered("account_history") /\ "history" \notin DOMAIN reply.body)
           => outcome = [raised |-> "", value |-> List(<<>>)]
    /\ (Answered("account_list") /\ "accounts" \notin DOMAIN reply.body)
           => outcome = [raised |-> "", value |-> List(<<>>)]

C7_Witness ==
    /\ Answered("account_history")
    /\ DOMAIN reply.body = {"error"}
    /\ outcome.value = List(<<>>)

\* C8: when rpc_version and store_version arrive as numeric strings, version
\* returns the response with these two replaced by the integers they denote
\* and every other field unchanged; no field is added or removed.
C8_VersionIntegers ==
    (/\ Answered("version")
     /\ {"rpc_version", "store_version"} \subseteq DOMAIN reply.body
     /\ IsNumeral(reply.body["rpc_version"])
     /\ IsNumeral(reply.body["store_version"]))
    => (/\ outcome.raised = ""
        /\ outcome.value.t = "dict"
        /\ DOMAIN outcome.value.d = DOMAIN reply.body
        /\ \A k \in DOMAIN reply.body :
               IF k \in {"rpc_version", "store_version"}
               THEN \E n \in 0..MaxNum :
                        Denotes(reply.body[k], n) /\ outcome.value.d[k] = Integer(n)
               ELSE outcome.value.d[k] = reply.body[k])

C8_Witness ==
    /\ Answered("version")
    /\ DOMAIN reply.body = {"rpc_version", "store_version", "node_vendor"}
    /\ reply.body["node_vendor"] = Str("10")
    /\ reply.body["store_version"] = Str(PyStr(MaxNum))
    /\ outcome.value.t = "dict"
    /\ outcome.value.d["store_version"] = Integer(MaxNum)

\* C9: stop returns true exactly when the response has the key `success`,
\* whatever is stored under it, and false otherwise.
C9_StopIffSuccessKey ==
    Answered("stop") =>
        /\ outcome.raised = ""
        /\ outcome.value \in {Bool(TRUE), Bool(FALSE)}
        /\ outcome.value = Bool(TRUE) <=> "success" \in DOMAIN reply.body

C9_Witness ==
    /\ Answered("stop")
    /\ "success" \in DOMAIN reply.body
    /\ reply.body["success"] = Bool(FALSE)
    /\ outcome.value = Bool(TRUE)

====
